---- MODULE Spec2Model ----
(***************************************************************************)
(* Model of the PDF-to-slide conversion of the presentations app:          *)
(*   apps/presentations/models.py    Presentation, Slide                   *)
(*   apps/presentations/services.py  PDFProcessor (synchronous conversion) *)
(*   apps/presentations/tasks.py     convert_pdf_to_slides (Celery task)   *)
(*   apps/presentations/forms.py     PresentationUploadForm                *)
(*   apps/presentations/views.py     upload, delete, presentation_slide    *)
(* The database rows, the blob storage and every in-flight conversion      *)
(* attempt are the state; each database or storage operation of an attempt *)
(* is one step, so that attempts and deletes interleave at that grain.     *)
(***************************************************************************)
EXTENDS Integers, FiniteSets, Sequences, TLC

\* ---------------------------------------------------------------- bounds
MaxPages == 2
MaxAttempts == 2

PresIds == {1, 2}
Workers == {1, 2}

\* ------------------------------------------------------------ data model
\* The concrete, non-pk fields of Presentation (models.py): the only names
\* Model.save(update_fields=...) accepts.
PresentationFields ==
    {"title", "pdf_file", "total_slides", "is_converted", "created_at", "updated_at"}

\* Value shown for processing_status when the row has no such column.
NoColumn == "<no column>"

\* A presentation id with no row in the table.
NoRow ==
    [exists |-> FALSE, pdf_file |-> FALSE, total_slides |-> 0,
     is_converted |-> FALSE, processing_status |-> NoColumn]

\* Presentation.objects.create(title=..., pdf_file=...): the field defaults.
NewPresentation(hasPdf) ==
    [exists |-> TRUE, pdf_file |-> hasPdf, total_slides |-> 0,
     is_converted |-> FALSE, processing_status |-> NoColumn]

VARIABLES
    presentations,  \* [PresIds -> row]: the Presentation table
    pdfStored,      \* [PresIds -> BOOLEAN]: the PDF blob exists in storage
    pdfPages,       \* [PresIds -> 0..MaxPages]: pages of the stored PDF
    slides,         \* set of Slide rows [id, presentation, slide_number]
    blobs,          \* ids of the slide image blobs present in storage
    attempts,       \* number of conversion attempts started so far
    pc,             \* [Workers -> position of the worker's attempt]
    job,            \* [Workers -> the attempt's local variables]
    response,       \* the request being answered and its response
    image           \* the page image given to _optimize_image and what it returned

vars ==
    <<presentations, pdfStored, pdfPages, slides, blobs, attempts, pc, job, response,
      image>>

\* presentation.slides.all() / Slide.objects.filter(presentation=presentation)
SlidesOf(p) == {s \in slides : s.presentation = p}

SlideNumbersOf(p) == {s.slide_number : s \in SlidesOf(p)}

\* Slide ids: one per create call, unique (run = attempt number, page).
SlideId(run, page) == [run |-> run, page |-> page]

\* Variant of InsertAccepted without the unique_together constraint.
InsertAcceptedNoUnique(p, n) ==
    presentations[p].exists

\* Slide.Meta.unique_together and the foreign key: an INSERT of (p, n) is
\* accepted iff the presentation row exists and no slide of p has number n.
InsertAccepted(p, n) ==
    /\ presentations[p].exists
    /\ n \notin SlideNumbersOf(p)

\* The local variables of a conversion attempt: the presentation object held
\* in memory (mem), the number of rasterized images, the loop index i, the
\* slide numbers of the slides created, the pages whose persistence met a
\* storage error, and how the call ended.
NoJob ==
    [path |-> "none", pid |-> 0, run |-> 0, mem |-> NoRow, images |-> 0,
     i |-> 0, slides_created |-> {}, storage_errors |-> {},
     result |-> "none", cause |-> "none"]

NewJob(path, p, run) ==
    [path |-> path, pid |-> p, run |-> run, mem |-> presentations[p], images |-> 0,
     i |-> 0, slides_created |-> {}, storage_errors |-> {},
     result |-> "running", cause |-> "none"]

\* No image is being optimized.
NoImage == [size |-> <<0, 0>>, returned |-> "none", resized |-> FALSE, resize |-> <<0, 0>>]

\* No request is being answered.
NoResponse == [pk |-> 0, n |-> 0, body |-> [status |-> 0]]

\* A worker can take a new call when it runs none: it never ran one, or its
\* last call has returned or raised (its job stays readable until then).
Free(w) == pc[w] \in {"idle", "done"}

\* Workers are interchangeable: a call is taken by the free worker whose last
\* call is the oldest (the first of them when several never ran).
Takes(w) ==
    /\ Free(w)
    /\ \A v \in Workers \ {w} :
          Free(v) => \/ job[w].run < job[v].run
                     \/ (job[w].run = job[v].run /\ w < v)

Running == {w \in Workers : ~Free(w)}

\* ------------------------------------------------------------------ Init
\* The presentations exist, each created with or without a PDF; an uploaded
\* PDF is in storage and has between 0 and MaxPages pages.
Init ==
    /\ presentations \in [PresIds -> {NewPresentation(FALSE), NewPresentation(TRUE)}]
    /\ pdfStored = [p \in PresIds |-> presentations[p].pdf_file]
    /\ pdfPages \in [PresIds -> 0..MaxPages]
    /\ \A p \in PresIds : ~presentations[p].pdf_file => pdfPages[p] = 0
    /\ slides = {}
    /\ blobs = {}
    /\ attempts = 0
    /\ pc = [w \in Workers |-> "idle"]
    /\ job = [w \in Workers |-> NoJob]
    /\ response = NoResponse
    /\ image = NoImage

\* ---------------------------------- services.py: PDFProcessor (sync path)
\* Variant of CallConvertPdfToImages without the os.path.exists check.
CallConvertNoFileCheck(w, p) ==
    /\ Takes(w)
    /\ attempts < MaxAttempts
    /\ presentations[p].exists
    /\ attempts' = attempts + 1
    /\ \E raster \in {"ok", "fail"} :
         LET j == NewJob("sync", p, attempts + 1) IN
         IF ~presentations[p].pdf_file
         THEN /\ pc' = [pc EXCEPT ![w] = "done"]
              /\ job' = [job EXCEPT ![w] =
                           [j EXCEPT !.result = "PDFConversionError", !.cause = "no_pdf"]]
         ELSE IF raster = "fail"
         THEN /\ pc' = [pc EXCEPT ![w] = "done"]
              /\ job' = [job EXCEPT ![w] =
                           [j EXCEPT !.result = "PDFConversionError", !.cause = "raster"]]
         ELSE /\ pc' = [pc EXCEPT ![w] = "s_delete"]
              /\ job' = [job EXCEPT ![w] = [j EXCEPT !.images = pdfPages[p]]]
    /\ UNCHANGED <<presentations, pdfStored, pdfPages, slides, blobs, response, image>>

\* convert_pdf_to_images, up to and including the rasterization: the checks
\* of the PDF reference and of the stored file, then _convert_pdf_pages.
\* A caller holds a loaded Presentation object, so the row exists.
CallConvertPdfToImages(w, p) ==
    /\ Takes(w)
    /\ attempts < MaxAttempts
    /\ presentations[p].exists
    /\ attempts' = attempts + 1
    /\ \E raster \in {"ok", "fail"} :
         LET j == NewJob("sync", p, attempts + 1) IN
         IF ~presentations[p].pdf_file
         THEN /\ pc' = [pc EXCEPT ![w] = "done"]
              /\ job' = [job EXCEPT ![w] =
                           [j EXCEPT !.result = "PDFConversionError", !.cause = "no_pdf"]]
         ELSE IF ~pdfStored[p]
         THEN /\ pc' = [pc EXCEPT ![w] = "done"]
              /\ job' = [job EXCEPT ![w] =
                           [j EXCEPT !.result = "PDFConversionError", !.cause = "missing_blob"]]
         ELSE IF raster = "fail"
         THEN /\ pc' = [pc EXCEPT ![w] = "done"]
              /\ job' = [job EXCEPT ![w] =
                           [j EXCEPT !.result = "PDFConversionError", !.cause = "raster"]]
         ELSE /\ pc' = [pc EXCEPT ![w] = "s_delete"]
              /\ job' = [job EXCEPT ![w] = [j EXCEPT !.images = pdfPages[p]]]
    /\ UNCHANGED <<presentations, pdfStored, pdfPages, slides, blobs, response, image>>

\* Variant of SyncDeleteExisting that keeps the existing slides (a merge).
SyncDeleteNothing(w) ==
    /\ pc[w] = "s_delete"
    /\ pc' = [pc EXCEPT ![w] = IF job[w].images = 0 THEN "s_save" ELSE "s_create"]
    /\ job' = [job EXCEPT ![w].i = 1]
    /\ UNCHANGED <<presentations, pdfStored, pdfPages, slides, blobs, attempts, response, image>>

\* _create_slides_from_images: presentation.slides.all().delete().
\* QuerySet.delete() removes the rows; the image files stay in storage.
SyncDeleteExisting(w) ==
    /\ pc[w] = "s_delete"
    /\ slides' = slides \ SlidesOf(job[w].pid)
    /\ pc' = [pc EXCEPT ![w] = IF job[w].images = 0 THEN "s_save" ELSE "s_create"]
    /\ job' = [job EXCEPT ![w].i = 1]
    /\ UNCHANGED <<presentations, pdfStored, pdfPages, blobs, attempts, response, image>>

\* One iteration of the loop of _create_slides_from_images, page i.
\* Slide.objects.create(presentation, slide_number=i, image_file=...) first
\* writes the image file (FileField.pre_save), then INSERTs the row; any
\* exception is logged and the loop continues with the next page.
SyncCreateSlide(w) ==
    /\ pc[w] = "s_create"
    /\ LET p == job[w].pid
           i == job[w].i
           id == SlideId(job[w].run, i)
       IN \E storage \in {"ok", "error"} :
            /\ IF storage = "error"
               THEN /\ UNCHANGED <<slides, blobs>>
                    /\ job' = [job EXCEPT ![w].i = i + 1,
                                          ![w].storage_errors = @ \cup {i}]
               ELSE IF InsertAccepted(p, i)
               THEN /\ blobs' = blobs \cup {id}
                    /\ slides' = slides \cup
                                   {[id |-> id, presentation |-> p, slide_number |-> i]}
                    /\ job' = [job EXCEPT ![w].i = i + 1,
                                          ![w].slides_created = @ \cup {i}]
               ELSE /\ blobs' = blobs \cup {id}
                    /\ UNCHANGED slides
                    /\ job' = [job EXCEPT ![w].i = i + 1]
            /\ pc' = [pc EXCEPT ![w] = IF i = job[w].images THEN "s_save" ELSE "s_create"]
    /\ UNCHANGED <<presentations, pdfStored, pdfPages, attempts, response, image>>

\* Model.save() without update_fields: UPDATE of every field from the
\* in-memory object; when no row has the pk the row is INSERTed.
SaveAllFields(mem) ==
    [mem EXCEPT !.exists = TRUE]

\* Variant of SyncSave that adds the new slides to the stored count.
SyncSaveAccumulates(w) ==
    /\ pc[w] = "s_save"
    /\ LET p == job[w].pid
           mem == [job[w].mem EXCEPT
                     !.total_slides = @ + Cardinality(job[w].slides_created),
                     !.is_converted = TRUE]
       IN /\ presentations' = [presentations EXCEPT ![p] = SaveAllFields(mem)]
          /\ pc' = [pc EXCEPT ![w] = "done"]
          /\ job' = [job EXCEPT ![w].mem = mem, ![w].result = "ok"]
    /\ UNCHANGED <<pdfStored, pdfPages, slides, blobs, attempts, response, image>>

\* convert_pdf_to_images: total_slides = len(slides); is_converted = True;
\* presentation.save(); return slides.
SyncSave(w) ==
    /\ pc[w] = "s_save"
    /\ LET p == job[w].pid
           mem == [job[w].mem EXCEPT !.total_slides = Cardinality(job[w].slides_created),
                                     !.is_converted = TRUE]
       IN /\ presentations' = [presentations EXCEPT ![p] = SaveAllFields(mem)]
          /\ pc' = [pc EXCEPT ![w] = "done"]
          /\ job' = [job EXCEPT ![w].mem = mem, ![w].result = "ok"]
    /\ UNCHANGED <<pdfStored, pdfPages, slides, blobs, attempts, response, image>>

\* ------------------------------- tasks.py: convert_pdf_to_slides (task path)
\* Model.save(update_fields=fields): ValueError when a name is not a concrete
\* field of the model; DatabaseError when the UPDATE affects no row; otherwise
\* exactly the named fields are written from the in-memory object.
SaveUpdateFields(row, mem, fields) ==
    IF ~(fields \subseteq PresentationFields)
    THEN [raised |-> "ValueError", row |-> row]
    ELSE IF ~row.exists
    THEN [raised |-> "DatabaseError", row |-> row]
    ELSE [raised |-> "none",
          row |-> [row EXCEPT
                     !.total_slides = IF "total_slides" \in fields
                                      THEN mem.total_slides ELSE @,
                     !.is_converted = IF "is_converted" \in fields
                                      THEN mem.is_converted ELSE @,
                     !.processing_status = IF "processing_status" \in fields
                                           THEN mem.processing_status ELSE @]]

\* The update_fields of the final save and of the two except clauses.
CompletedUpdateFields == {"processing_status", "is_converted", "total_slides"}

FailedUpdateFields == {"processing_status"}

\* Variant of TaskStart that deletes the existing slides before rasterizing.
TaskStartDeleteFirst(w, p) ==
    /\ Takes(w)
    /\ attempts < MaxAttempts
    /\ attempts' = attempts + 1
    /\ slides' = slides \ SlidesOf(p)
    /\ \E raster \in {"ok", "fail"} :
         LET j == NewJob("task", p, attempts + 1)
             cause == IF ~presentations[p].exists THEN "not_found"
                      ELSE IF ~presentations[p].pdf_file THEN "no_pdf"
                      ELSE IF ~pdfStored[p] THEN "missing_blob"
                      ELSE IF raster = "fail" THEN "raster"
                      ELSE IF pdfPages[p] = 0 THEN "no_pages"
                      ELSE "none"
         IN IF cause # "none"
            THEN /\ pc' = [pc EXCEPT ![w] = "t_handler"]
                 /\ job' = [job EXCEPT ![w] = [j EXCEPT !.cause = cause]]
            ELSE /\ pc' = [pc EXCEPT ![w] = "t_delete"]
                 /\ job' = [job EXCEPT ![w] = [j EXCEPT !.images = pdfPages[p]]]
    /\ UNCHANGED <<presentations, pdfStored, pdfPages, blobs, response, image>>

\* convert_pdf_to_slides up to and including the rasterization: load the row,
\* check the PDF reference and the stored file, convert_from_path, the check
\* for an empty page list.  Every failure raises PDFConversionError, which
\* the except clause handles (TaskHandler).
TaskStart(w, p) ==
    /\ Takes(w)
    /\ attempts < MaxAttempts
    /\ attempts' = attempts + 1
    /\ \E raster \in {"ok", "fail"} :
         LET j == NewJob("task", p, attempts + 1)
             cause == IF ~presentations[p].exists THEN "not_found"
                      ELSE IF ~presentations[p].pdf_file THEN "no_pdf"
                      ELSE IF ~pdfStored[p] THEN "missing_blob"
                      ELSE IF raster = "fail" THEN "raster"
                      ELSE IF pdfPages[p] = 0 THEN "no_pages"
                      ELSE "none"
         IN IF cause # "none"
            THEN /\ pc' = [pc EXCEPT ![w] = "t_handler"]
                 /\ job' = [job EXCEPT ![w] = [j EXCEPT !.cause = cause]]
            ELSE /\ pc' = [pc EXCEPT ![w] = "t_delete"]
                 /\ job' = [job EXCEPT ![w] = [j EXCEPT !.images = pdfPages[p]]]
    /\ UNCHANGED <<presentations, pdfStored, pdfPages, slides, blobs, response, image>>

\* with transaction.atomic(): Slide.objects.filter(presentation=...).delete()
TaskDeleteExisting(w) ==
    /\ pc[w] = "t_delete"
    /\ slides' = slides \ SlidesOf(job[w].pid)
    /\ pc' = [pc EXCEPT ![w] = "t_create"]
    /\ job' = [job EXCEPT ![w].i = 1]
    /\ UNCHANGED <<presentations, pdfStored, pdfPages, blobs, attempts, response, image>>

\* One iteration of the page loop: inside one transaction the row is INSERTed
\* and then the image is written and attached; an exception rolls the row
\* back, is logged, and the loop continues.
TaskCreateSlide(w) ==
    /\ pc[w] = "t_create"
    /\ LET p == job[w].pid
           i == job[w].i
           id == SlideId(job[w].run, i)
       IN \E storage \in {"ok", "error"} :
            /\ IF storage = "ok" /\ InsertAccepted(p, i)
               THEN /\ blobs' = blobs \cup {id}
                    /\ slides' = slides \cup
                                   {[id |-> id, presentation |-> p, slide_number |-> i]}
                    /\ job' = [job EXCEPT ![w].i = i + 1,
                                          ![w].slides_created = @ \cup {i}]
               ELSE /\ UNCHANGED <<slides, blobs>>
                    /\ job' = [job EXCEPT ![w].i = i + 1,
                                          ![w].storage_errors =
                                              IF storage = "error" THEN @ \cup {i} ELSE @]
            /\ pc' = [pc EXCEPT ![w] = IF i = job[w].images THEN "t_save" ELSE "t_create"]
    /\ UNCHANGED <<presentations, pdfStored, pdfPages, attempts, response, image>>

\* processing_status = 'completed'; is_converted = True; total_slides =
\* len(slides_created); save(update_fields=[...]).  An exception of the save
\* is not a PDFConversionError: the generic except clause handles it.
TaskSave(w) ==
    /\ pc[w] = "t_save"
    /\ LET p == job[w].pid
           mem == [job[w].mem EXCEPT !.processing_status = "completed",
                                     !.is_converted = TRUE,
                                     !.total_slides = Cardinality(job[w].slides_created)]
           saved == SaveUpdateFields(presentations[p], mem, CompletedUpdateFields)
       IN /\ presentations' = [presentations EXCEPT ![p] = saved.row]
          /\ IF saved.raised = "none"
             THEN /\ pc' = [pc EXCEPT ![w] = "done"]
                  /\ job' = [job EXCEPT ![w].mem = mem, ![w].result = "ok"]
             ELSE /\ pc' = [pc EXCEPT ![w] = "t_handler"]
                  /\ job' = [job EXCEPT ![w].mem = mem, ![w].cause = saved.raised]
    /\ UNCHANGED <<pdfStored, pdfPages, slides, blobs, attempts, response, image>>

\* Variant of TaskHandler that saves the object held by the attempt with a
\* plain save(), which INSERTs the row when it is not there.
TaskHandlerInserts(w) ==
    /\ pc[w] = "t_handler"
    /\ LET p == job[w].pid
       IN presentations' = [presentations EXCEPT ![p] = SaveAllFields(job[w].mem)]
    /\ pc' = [pc EXCEPT ![w] = "done"]
    /\ job' = [job EXCEPT ![w].result = "PDFConversionError"]
    /\ UNCHANGED <<pdfStored, pdfPages, slides, blobs, attempts, response, image>>

\* Variant of TaskHandler that also marks the presentation as not converted.
TaskHandlerUnconverts(w) ==
    /\ pc[w] = "t_handler"
    /\ LET p == job[w].pid
           row == presentations[p]
       IN presentations' = [presentations EXCEPT ![p] =
                              IF row.exists THEN [row EXCEPT !.is_converted = FALSE] ELSE row]
    /\ pc' = [pc EXCEPT ![w] = "done"]
    /\ job' = [job EXCEPT ![w].result = "PDFConversionError"]
    /\ UNCHANGED <<pdfStored, pdfPages, slides, blobs, attempts, response, image>>

\* Both except clauses: reload the row, processing_status = 'failed',
\* save(update_fields=['processing_status']); an exception of the reload or
\* of the save is logged and dropped; PDFConversionError is raised.
TaskHandler(w) ==
    /\ pc[w] = "t_handler"
    /\ LET p == job[w].pid
           row == presentations[p]
           saved == SaveUpdateFields(row, [row EXCEPT !.processing_status = "failed"],
                                     FailedUpdateFields)
       IN presentations' = [presentations EXCEPT ![p] = IF row.exists THEN saved.row ELSE row]
    /\ pc' = [pc EXCEPT ![w] = "done"]
    /\ job' = [job EXCEPT ![w].result = "PDFConversionError"]
    /\ UNCHANGED <<pdfStored, pdfPages, slides, blobs, attempts, response, image>>

\* ------------------------------------------ models.py: Presentation.delete
\* Variant of DeletePresentation whose foreign key does not cascade: the
\* slides of the presentation stay.
DeletePresentationNoCascade(p) ==
    /\ presentations[p].exists
    /\ pdfStored' = [pdfStored EXCEPT ![p] = FALSE]
    /\ blobs' = blobs \ {s.id : s \in SlidesOf(p)}
    /\ slides' = slides
    /\ presentations' = [presentations EXCEPT ![p] = NoRow]
    /\ UNCHANGED <<pdfPages, attempts, pc, job, response, image>>

\* Variant of DeletePresentation without delete_files(): only the records go.
DeletePresentationKeepsFiles(p) ==
    /\ presentations[p].exists
    /\ UNCHANGED <<pdfStored, blobs, image>>
    /\ slides' = slides \ SlidesOf(p)
    /\ presentations' = [presentations EXCEPT ![p] = NoRow]
    /\ UNCHANGED <<pdfPages, attempts, pc, job, response, image>>

\* delete_files() removes the PDF file and the image file of every slide the
\* presentation owns, then Model.delete() removes the row and, by the
\* CASCADE foreign key, its slides.
DeletePresentation(p) ==
    /\ presentations[p].exists
    /\ pdfStored' = [pdfStored EXCEPT ![p] = FALSE]
    /\ blobs' = blobs \ {s.id : s \in SlidesOf(p)}
    /\ slides' = slides \ SlidesOf(p)
    /\ presentations' = [presentations EXCEPT ![p] = NoRow]
    /\ UNCHANGED <<pdfPages, attempts, pc, job, response, image>>

\* The PDF file is removed from storage outside the application (the case the
\* existence checks of both conversion paths are there for).
PdfFileRemoved(p) ==
    /\ pdfStored[p]
    /\ pdfStored' = [pdfStored EXCEPT ![p] = FALSE]
    /\ UNCHANGED <<presentations, pdfPages, slides, blobs, attempts, pc, job, response, image>>

\* ------------------------------------------- views.py: presentation_slide
\* The slide numbers a request can carry: the route takes <int:slide_number>,
\* which matches the non-negative integers only.
RequestNumbers == 0..(MaxPages + 1)

\* slides[k - 1] of presentation.slides.all().order_by('slide_number'): the
\* slide that has k - 1 slides of the presentation before it.
OrderedSlides(p) ==
    [k \in 1..Cardinality(SlidesOf(p)) |->
       CHOOSE s \in SlidesOf(p) :
         Cardinality({t \in SlidesOf(p) : t.slide_number < s.slide_number}) = k - 1]

\* Variant of presentation_slide that takes the stored total_slides of the
\* presentation as the number of slides.
PresentationSlideStoredTotal(pk, slide_number) ==
    IF ~presentations[pk].exists
    THEN [status |-> 404, error |-> "Http404"]
    ELSE LET ordered == OrderedSlides(pk)
             total_slides == presentations[pk].total_slides
         IN IF slide_number < 1 \/ slide_number > total_slides
            THEN [status |-> 400, error |-> "invalid", current_slide |-> 1,
                  total_slides |-> total_slides]
            ELSE IF slide_number \notin DOMAIN ordered
            THEN [status |-> 404, error |-> "not found", current_slide |-> 1,
                  total_slides |-> total_slides]
            ELSE [status |-> 200, slide |-> ordered[slide_number],
                  slide_number |-> slide_number, total_slides |-> total_slides,
                  has_previous |-> slide_number > 1,
                  has_next |-> slide_number < total_slides]

\* Variant of presentation_slide whose has_next also holds on the last slide.
PresentationSlideNextOnLast(pk, slide_number) ==
    IF ~presentations[pk].exists
    THEN [status |-> 404, error |-> "Http404"]
    ELSE LET ordered == OrderedSlides(pk)
             total_slides == Len(ordered)
         IN IF slide_number < 1 \/ slide_number > total_slides
            THEN [status |-> 400, error |-> "invalid", current_slide |-> 1,
                  total_slides |-> total_slides]
            ELSE IF slide_number \notin DOMAIN ordered
            THEN [status |-> 404, error |-> "not found", current_slide |-> 1,
                  total_slides |-> total_slides]
            ELSE [status |-> 200, slide |-> ordered[slide_number],
                  slide_number |-> slide_number, total_slides |-> total_slides,
                  has_previous |-> slide_number > 1,
                  has_next |-> slide_number <= total_slides]

\* presentation_slide(request, pk, slide_number): get_object_or_404, the count
\* of the slides, the range check (400), slides[slide_number - 1] with its
\* IndexError (404), the JSON payload of the slide found.
PresentationSlide(pk, slide_number) ==
    IF ~presentations[pk].exists
    THEN [status |-> 404, error |-> "Http404"]
    ELSE LET ordered == OrderedSlides(pk)
             total_slides == Len(ordered)
         IN IF slide_number < 1 \/ slide_number > total_slides
            THEN [status |-> 400, error |-> "invalid", current_slide |-> 1,
                  total_slides |-> total_slides]
            ELSE IF slide_number \notin DOMAIN ordered
            THEN [status |-> 404, error |-> "not found", current_slide |-> 1,
                  total_slides |-> total_slides]
            ELSE [status |-> 200, slide |-> ordered[slide_number],
                  slide_number |-> slide_number, total_slides |-> total_slides,
                  has_previous |-> slide_number > 1,
                  has_next |-> slide_number < total_slides]

\* A navigation request is answered: the view reads and writes nothing else.
\* The request is kept with its response.
GetPresentationSlide(pk, slide_number) ==
    /\ response = NoResponse
    /\ response' = [pk |-> pk, n |-> slide_number,
                    body |-> PresentationSlide(pk, slide_number)]
    /\ UNCHANGED <<presentations, pdfStored, pdfPages, slides, blobs, attempts, pc, job, image>>

\* The response has been sent; the redirect of an upload is sent when its
\* inline conversion is over.
ResponseSent ==
    /\ response # NoResponse
    /\ response.body.status = 302 => Running = {}
    /\ response' = NoResponse
    /\ UNCHANGED <<presentations, pdfStored, pdfPages, slides, blobs, attempts, pc, job, image>>

\* ----------------------- forms.py: PresentationUploadForm; views.py: upload
MaxTitleLength == 200
MinTitleLength == 3
MaxUploadBytes == 52428800

\* A submitted title: a text of `core` characters that starts and ends with a
\* non-blank character (or is empty), between `lead` and `trail` blanks.
Title(lead, core, trail) == [lead |-> lead, core |-> core, trail |-> trail]

\* Blanks only, one character short, the shortest, the longest between
\* blanks, one character too long.
Titles ==
    {Title(1, 0, 1), Title(1, MinTitleLength - 1, 1), Title(0, MinTitleLength, 0),
     Title(1, MaxTitleLength, 1), Title(0, MaxTitleLength + 1, 0)}

\* str.strip() and len()
Strip(title) == [title EXCEPT !.lead = 0, !.trail = 0]

TitleLen(title) == title.lead + title.core + title.trail

\* File names are sequences of characters.
NamePdf == <<"a", ".", "p", "d", "f">>
NameUpperPdf == <<"A", ".", "P", "D", "F">>
NameTxt == <<"a", ".", "t", "x", "t">>
NameNoDot == <<"p", "d", "f">>

\* str.lower()
LowerChar(c) ==
    CASE c = "A" -> "a" [] c = "P" -> "p" [] c = "D" -> "d" [] c = "F" -> "f"
      [] OTHER -> c

Lower(name) == [k \in DOMAIN name |-> LowerChar(name[k])]

\* str.endswith()
EndsWith(name, suffix) ==
    /\ Len(name) >= Len(suffix)
    /\ SubSeq(name, Len(name) - Len(suffix) + 1, Len(name)) = suffix

DotPdf == <<".", "p", "d", "f">>

NoFile == [name |-> <<>>, content_type |-> "", size |-> 0]

\* An uploaded file: name, declared content type, size in bytes.
File(name, content_type, size) ==
    [name |-> name, content_type |-> content_type, size |-> size]

\* A small PDF, the largest PDF with an upper-case name, and files with one
\* defect each: the name, the declared type, the size (too large, empty).
UploadedFiles ==
    {File(NamePdf, "application/pdf", 1),
     File(NameUpperPdf, "application/pdf", MaxUploadBytes),
     File(NameTxt, "application/pdf", 1),
     File(NameNoDot, "application/pdf", 1),
     File(NamePdf, "text/plain", 1),
     File(NamePdf, "application/pdf", MaxUploadBytes + 1),
     File(NamePdf, "application/pdf", 0)}

\* The POST data of an upload: the title, and the file when one is attached.
UploadForms == [title : Titles, pdf_file : UploadedFiles \cup {NoFile}]

\* The error of the title field: forms.CharField strips the value, requires it
\* and applies max_length; clean_title then strips and applies the minimum.
TitleError(title) ==
    LET stripped == Strip(title) IN
    IF TitleLen(stripped) = 0 THEN "required"
    ELSE IF TitleLen(stripped) > MaxTitleLength THEN "max_length"
    ELSE IF TitleLen(Strip(stripped)) < MinTitleLength THEN "min_length"
    ELSE "none"

\* The error of the pdf_file field: forms.FileField requires a non-empty
\* file; clean_pdf_file then checks the size, the extension and the declared
\* content type, in this order.
PdfFileError(pdf_file) ==
    IF pdf_file = NoFile THEN "required"
    ELSE IF pdf_file.size = 0 THEN "empty"
    ELSE IF pdf_file.size > MaxUploadBytes THEN "too_large"
    ELSE IF ~EndsWith(Lower(pdf_file.name), DotPdf) THEN "extension"
    ELSE IF pdf_file.content_type # "application/pdf" THEN "content_type"
    ELSE "none"

\* Variant of IsValid that validates the file only.
IsValidFileOnly(form) ==
    PdfFileError(form.pdf_file) = "none"

\* form.is_valid()
IsValid(form) ==
    TitleError(form.title) = "none" /\ PdfFileError(form.pdf_file) = "none"

\* upload_presentation / upload_presentation_htmx, POST.  An invalid form is
\* rendered again with its errors (200).  A valid form is saved: the row gets
\* the next id (one row per upload, and in SpecUpload one conversion per
\* upload), the file is stored, and PDFProcessor.convert_pdf_to_images runs
\* inline on it (its checks of the PDF pass on the file just stored); the
\* response is the redirect to the new presentation whatever the conversion
\* does.  The request is kept with its response until the response is sent.
UploadPresentation(w, form) ==
    /\ response = NoResponse
    /\ Takes(w)
    /\ IF ~IsValid(form)
       THEN /\ response' = [pk |-> 0, n |-> 0,
                            body |-> [status |-> 200, view |-> "upload", form |-> form]]
            /\ UNCHANGED <<presentations, pdfStored, pdfPages, slides, blobs,
                           attempts, pc, job>>
       ELSE LET p == attempts + 1 IN
            /\ attempts < MaxAttempts
            /\ p \in PresIds
            /\ ~presentations[p].exists
            /\ \E pages \in 0..MaxPages, raster \in {"ok", "fail"} :
                 LET j == [NewJob("sync", p, p) EXCEPT !.mem = NewPresentation(TRUE)]
                 IN /\ presentations' = [presentations EXCEPT ![p] = NewPresentation(TRUE)]
                    /\ pdfStored' = [pdfStored EXCEPT ![p] = TRUE]
                    /\ pdfPages' = [pdfPages EXCEPT ![p] = pages]
                    /\ attempts' = p
                    /\ IF raster = "fail"
                       THEN /\ pc' = [pc EXCEPT ![w] = "done"]
                            /\ job' = [job EXCEPT ![w] =
                                         [j EXCEPT !.result = "PDFConversionError",
                                                   !.cause = "raster"]]
                       ELSE /\ pc' = [pc EXCEPT ![w] = "s_delete"]
                            /\ job' = [job EXCEPT ![w] = [j EXCEPT !.images = pages]]
            /\ response' = [pk |-> p, n |-> 0,
                            body |-> [status |-> 302, view |-> "upload", form |-> form]]
            /\ UNCHANGED <<slides, blobs>>
    /\ UNCHANGED image

\* ------------------------------- services.py: PDFProcessor._optimize_image
MAX_WIDTH == 1920
MAX_HEIGHT == 1080

\* Page images: widths and heights of at least one pixel, below, at and above
\* the maximum, with extreme aspect ratios among them.
ImageWidths == {1, 2, 55, 800, MAX_WIDTH - 1, MAX_WIDTH, MAX_WIDTH + 1, 2148, 2400, 3840}

ImageHeights == {1, 2, 600, MAX_HEIGHT - 1, MAX_HEIGHT, MAX_HEIGHT + 1, 1800, 1980, 2160}

\* A ratio MAX / dimension, kept as a fraction.
Ratio(num, den) == [num |-> num, den |-> den]

\* min(width_ratio, height_ratio)
MinRatio(a, b) == IF a.num * b.den <= b.num * a.den THEN a ELSE b

\* max(width_ratio, height_ratio)
MaxRatio(a, b) == IF a.num * b.den >= b.num * a.den THEN a ELSE b

\* int(x * ratio): the ratio and the product are floating-point numbers.  The
\* truncation gives the integer part of the exact product; when the exact
\* product is an integer the rounded product may lie just below it, and the
\* truncation then gives one less.
IntOfProduct(x, ratio) ==
    LET q == (x * ratio.num) \div ratio.den
    IN IF (x * ratio.num) % ratio.den = 0 THEN {q, q - 1} ELSE {q}

\* Variant of OptimizeImage that also resizes an image at the maximum size.
OptimizeImageAtBounds(size) ==
    LET width == size[1]
        height == size[2]
    IN IF width >= MAX_WIDTH \/ height >= MAX_HEIGHT
       THEN LET ratio == MinRatio(Ratio(MAX_WIDTH, width), Ratio(MAX_HEIGHT, height))
            IN {[size |-> size, returned |-> "resized", resized |-> TRUE,
                 resize |-> <<new_width, new_height>>] :
                  new_width \in IntOfProduct(width, ratio),
                  new_height \in IntOfProduct(height, ratio)}
       ELSE {[size |-> size, returned |-> "input", resized |-> FALSE, resize |-> <<0, 0>>]}

\* Variant of OptimizeImage that scales by the larger of the two ratios.
OptimizeImageMaxRatio(size) ==
    LET width == size[1]
        height == size[2]
    IN IF width > MAX_WIDTH \/ height > MAX_HEIGHT
       THEN LET ratio == MaxRatio(Ratio(MAX_WIDTH, width), Ratio(MAX_HEIGHT, height))
            IN {[size |-> size, returned |-> "resized", resized |-> TRUE,
                 resize |-> <<new_width, new_height>>] :
                  new_width \in IntOfProduct(width, ratio),
                  new_height \in IntOfProduct(height, ratio)}
       ELSE {[size |-> size, returned |-> "input", resized |-> FALSE, resize |-> <<0, 0>>]}

\* _optimize_image(image): what the call can do with an image of this size.
\* Within the maxima the image itself is returned; otherwise image.resize is
\* called with (int(width * ratio), int(height * ratio)) and its result is
\* returned.
OptimizeImage(size) ==
    LET width == size[1]
        height == size[2]
    IN IF width > MAX_WIDTH \/ height > MAX_HEIGHT
       THEN LET ratio == MinRatio(Ratio(MAX_WIDTH, width), Ratio(MAX_HEIGHT, height))
            IN {[size |-> size, returned |-> "resized", resized |-> TRUE,
                 resize |-> <<new_width, new_height>>] :
                  new_width \in IntOfProduct(width, ratio),
                  new_height \in IntOfProduct(height, ratio)}
       ELSE {[size |-> size, returned |-> "input", resized |-> FALSE, resize |-> <<0, 0>>]}

\* _convert_pdf_pages: optimized_img = cls._optimize_image(img)
CallOptimizeImage ==
    /\ image # NoImage
    /\ image.returned = "none"
    /\ image' \in OptimizeImage(image.size)
    /\ UNCHANGED <<presentations, pdfStored, pdfPages, slides, blobs, attempts, pc, job,
                   response>>

\* ---------------------------------- services.py: get_conversion_status
\* The status dictionary of a presentation loaded at the time of the query
\* (the fields read from the row, the slides counted in the table).
GetConversionStatus(p) ==
    [is_converted |-> presentations[p].is_converted,
     total_slides |-> presentations[p].total_slides,
     slides_count |-> Cardinality(SlidesOf(p)),
     has_pdf |-> presentations[p].pdf_file]

\* ------------------------------------------------------------------ Next
Next ==
    \/ \E w \in Workers, p \in PresIds : CallConvertPdfToImages(w, p)
    \/ \E w \in Workers : SyncDeleteExisting(w)
    \/ \E w \in Workers : SyncCreateSlide(w)
    \/ \E w \in Workers : SyncSave(w)
    \/ \E w \in Workers, p \in PresIds : TaskStart(w, p)
    \/ \E w \in Workers : TaskDeleteExisting(w)
    \/ \E w \in Workers : TaskCreateSlide(w)
    \/ \E w \in Workers : TaskSave(w)
    \/ \E w \in Workers : TaskHandler(w)
    \/ \E p \in PresIds : DeletePresentation(p)
    \/ \E p \in PresIds : PdfFileRemoved(p)

Spec == Init /\ [][Next]_vars

\* One conversion at a time, as when the conversion runs inline in the upload
\* request: a call starts, and a presentation is deleted or loses its file,
\* only while no conversion is running.
NextSeq ==
    \/ \E w \in Workers, p \in PresIds : Running = {} /\ CallConvertPdfToImages(w, p)
    \/ \E w \in Workers : SyncDeleteExisting(w)
    \/ \E w \in Workers : SyncCreateSlide(w)
    \/ \E w \in Workers : SyncSave(w)
    \/ \E w \in Workers, p \in PresIds : Running = {} /\ TaskStart(w, p)
    \/ \E w \in Workers : TaskDeleteExisting(w)
    \/ \E w \in Workers : TaskCreateSlide(w)
    \/ \E w \in Workers : TaskSave(w)
    \/ \E w \in Workers : TaskHandler(w)
    \/ \E p \in PresIds : Running = {} /\ DeletePresentation(p)
    \/ \E p \in PresIds : Running = {} /\ PdfFileRemoved(p)

SpecSeq == Init /\ [][NextSeq]_vars

\* The presentation mode next to the upload requests: inline conversions
\* one at a time, deletes, and navigation requests, each answered and its
\* response sent before anything else happens.
Quiet == response = NoResponse

NextNav ==
    \/ \E w \in Workers, p \in PresIds :
         Quiet /\ Running = {} /\ CallConvertPdfToImages(w, p)
    \/ \E w \in Workers : Quiet /\ SyncDeleteExisting(w)
    \/ \E w \in Workers : Quiet /\ SyncCreateSlide(w)
    \/ \E w \in Workers : Quiet /\ SyncSave(w)
    \/ \E p \in PresIds : Quiet /\ Running = {} /\ DeletePresentation(p)
    \/ \E pk \in PresIds, n \in RequestNumbers : GetPresentationSlide(pk, n)
    \/ ResponseSent

SpecNav == Init /\ [][NextNav]_vars

\* The application as its views drive it, from an empty database: uploads
\* (each with its inline conversion) one at a time, and deletes.
InitUpload ==
    /\ presentations = [p \in PresIds |-> NoRow]
    /\ pdfStored = [p \in PresIds |-> FALSE]
    /\ pdfPages = [p \in PresIds |-> 0]
    /\ slides = {}
    /\ blobs = {}
    /\ attempts = 0
    /\ pc = [w \in Workers |-> "idle"]
    /\ job = [w \in Workers |-> NoJob]
    /\ response = NoResponse
    /\ image = NoImage

NextUpload ==
    \/ \E w \in Workers, form \in UploadForms : Running = {} /\ UploadPresentation(w, form)
    \/ \E w \in Workers : SyncDeleteExisting(w)
    \/ \E w \in Workers : SyncCreateSlide(w)
    \/ \E w \in Workers : SyncSave(w)
    \/ \E p \in PresIds : Quiet /\ Running = {} /\ DeletePresentation(p)
    \/ ResponseSent

SpecUpload == InitUpload /\ [][NextUpload]_vars

\* The optimizer alone: a page image of any of the sizes is given to it.
InitOptimize ==
    /\ presentations = [p \in PresIds |-> NoRow]
    /\ pdfStored = [p \in PresIds |-> FALSE]
    /\ pdfPages = [p \in PresIds |-> 0]
    /\ slides = {}
    /\ blobs = {}
    /\ attempts = 0
    /\ pc = [w \in Workers |-> "idle"]
    /\ job = [w \in Workers |-> NoJob]
    /\ response = NoResponse
    /\ \E width \in ImageWidths, height \in ImageHeights :
         image = [size |-> <<width, height>>, returned |-> "none", resized |-> FALSE,
                  resize |-> <<0, 0>>]

NextOptimize == CallOptimizeImage

SpecOptimize == InitOptimize /\ [][NextOptimize]_vars

\* ================================================================ claims
\* The attempt of worker w is over and nothing was started after it.
LastFinished(w) ==
    /\ pc[w] = "done"
    /\ job[w].run = attempts
    /\ presentations[job[w].pid].exists

\* The attempt of w got its page images: no failure before or in rasterization.
Rasterized(w) ==
    job[w].cause \notin {"not_found", "no_pdf", "missing_blob", "raster"}

\* The attempt of w returned normally.
Completed(w) == pc[w] = "done" /\ job[w].result = "ok"

\* C1 (as claimed): when the PDF rasterizes to N >= 1 pages and no page fails
\* to persist, then after the attempt total_slides = N, is_converted, processing_status = completed and the slide
\* numbers are exactly 1..N.
C1_ConvertedExactly ==
    \A w \in Workers :
      LET p == job[w].pid
          N == pdfPages[p]
      IN (/\ LastFinished(w) /\ Rasterized(w) /\ N >= 1
          /\ job[w].storage_errors = {})
         => /\ presentations[p].total_slides = N
            /\ presentations[p].is_converted
            /\ presentations[p].processing_status = "completed"
            /\ SlideNumbersOf(p) = 1..N

\* C2 (as claimed): whenever no attempt is running, every converted
\* presentation has total_slides equal to the number of slides it owns.
C2_TotalMatchesSlides ==
    (Running = {}) =>
      \A p \in PresIds :
        (presentations[p].exists /\ presentations[p].is_converted)
          => presentations[p].total_slides = Cardinality(SlidesOf(p))

\* C3: when a conversion returns normally, the presentation's slides are
\* exactly the records this attempt created: none from an earlier attempt is
\* left (full replace, never a merge).
C3_FullReplace ==
    \A w \in Workers :
      LET p == job[w].pid IN
      (LastFinished(w) /\ Completed(w))
        => SlidesOf(p) = {[id |-> SlideId(job[w].run, n), presentation |-> p,
                           slide_number |-> n] : n \in job[w].slides_created}

\* A reconversion over existing slides, with another slide count than before.
C3_Witness ==
    \E w \in Workers, v \in Workers :
      /\ LastFinished(w) /\ Completed(w) /\ Completed(v)
      /\ job[v].pid = job[w].pid
      /\ job[v].run < job[w].run
      /\ job[v].slides_created # {}
      /\ job[w].slides_created # {}
      /\ job[w].slides_created # job[v].slides_created

C5_NoOrphanBlobs ==
    (Running = {}) => blobs \subseteq {s.id : s \in slides}

\* C6 (as claimed): an attempt that rasterized and met a storage error on some
\* page still went through every page, returned normally, and left
\* is_converted, processing_status = completed and total_slides equal to the
\* number of slides persisted, fewer than the pages.
C6_PartialCompletes ==
    \A w \in Workers :
      LET p == job[w].pid IN
      (/\ LastFinished(w) /\ Rasterized(w)
       /\ job[w].storage_errors # {})
      => /\ job[w].i = job[w].images + 1
         /\ job[w].result = "ok"
         /\ presentations[p].is_converted
         /\ presentations[p].processing_status = "completed"
         /\ presentations[p].total_slides = Cardinality(SlidesOf(p))
         /\ presentations[p].total_slides < job[w].images

\* C7 (as claimed): after a conversion that returned normally, also one with
\* pages that failed to persist, the slide numbers are exactly 1..total_slides.
C7_Contiguous ==
    \A w \in Workers :
      LET p == job[w].pid IN
      (LastFinished(w) /\ Completed(w))
        => SlideNumbersOf(p) = 1..presentations[p].total_slides

\* w takes a step of its own attempt.
Step(w) == pc'[w] # pc[w] \/ job'[w] # job[w]

\* w starts an attempt on presentation p.
StartsOn(w, p) ==
    /\ Free(w)
    /\ attempts' = attempts + 1
    /\ job'[w].run = attempts'
    /\ job'[w].pid = p

UniqueSlideNumbers ==
    \A s \in slides, t \in slides :
      (s.presentation = t.presentation /\ s.slide_number = t.slide_number) => s = t

\* w runs the create of page i while a slide with that number exists.
CreatesDuplicate(w) ==
    /\ pc[w] \in {"s_create", "t_create"}
    /\ job'[w].i = job[w].i + 1
    /\ job[w].i \in SlideNumbersOf(job[w].pid)

\* C8: under any interleaving of attempts and deletes no two slides of one
\* presentation share a slide_number; a create of an existing number is
\* rejected and leaves the slide records as they are.
C8_UniquePerPresentation ==
    /\ UniqueSlideNumbers
    /\ [][/\ UniqueSlideNumbers'
          /\ \A w \in Workers : CreatesDuplicate(w) => slides' = slides]_vars

\* Two attempts ran on one presentation and a page of one was rejected
\* because the other had created that slide number.
C8_Witness ==
    \E w \in Workers, v \in Workers :
      /\ w # v
      /\ pc[w] = "done" /\ job[v].pid = job[w].pid
      /\ \E n \in 1..job[w].images :
           /\ n \notin job[w].slides_created
           /\ n \notin job[w].storage_errors
           /\ [id |-> SlideId(job[v].run, n), presentation |-> job[w].pid,
               slide_number |-> n] \in slides

MissingSource == {"no_pdf", "missing_blob"}

\* C9: a conversion of a presentation with no PDF reference, or whose PDF is
\* not in storage, goes no further than the check, ends with a conversion
\* error, and none of its steps changes is_converted, total_slides or a slide.
C9_MissingSourceFails ==
    [][\A w \in Workers :
         /\ \A p \in PresIds :
              (/\ StartsOn(w, p)
               /\ presentations[p].exists
               /\ (~presentations[p].pdf_file \/ ~pdfStored[p]))
              => job'[w].cause \in MissingSource
         /\ (Step(w) /\ job'[w].cause \in MissingSource)
            => /\ slides' = slides
               /\ presentations'[job'[w].pid].is_converted =
                     presentations[job'[w].pid].is_converted
               /\ presentations'[job'[w].pid].total_slides =
                     presentations[job'[w].pid].total_slides
               /\ pc'[w] \in {"t_handler", "done"}
               /\ (pc'[w] = "done" => job'[w].result = "PDFConversionError")]_vars

\* A converted presentation that lost its PDF file: the reconversion failed
\* and the slides are still there.
C9_Witness ==
    \E w \in Workers :
      /\ pc[w] = "done" /\ job[w].cause = "missing_blob"
      /\ job[w].result = "PDFConversionError"
      /\ presentations[job[w].pid].is_converted
      /\ SlidesOf(job[w].pid) # {}

\* C10: when the rasterization fails the attempt ends with a conversion error
\* and none of its steps changes a slide, total_slides or is_converted; a
\* step of an attempt removes slides only after its rasterization succeeded.
C10_RasterFailureMutatesNothing ==
    [][\A w \in Workers :
         /\ (Step(w) /\ job'[w].cause = "raster")
            => /\ slides' = slides
               /\ presentations'[job'[w].pid].is_converted =
                     presentations[job'[w].pid].is_converted
               /\ presentations'[job'[w].pid].total_slides =
                     presentations[job'[w].pid].total_slides
               /\ pc'[w] \in {"t_handler", "done"}
               /\ (pc'[w] = "done" => job'[w].result = "PDFConversionError")
         /\ (Step(w) /\ ~(slides \subseteq slides'))
            => /\ ~Free(w)
               /\ job[w].cause = "none"
               /\ job[w].images = pdfPages[job[w].pid]]_vars

C10_Witness ==
    \E w \in Workers :
      /\ pc[w] = "done" /\ job[w].cause = "raster"
      /\ job[w].result = "PDFConversionError"
      /\ presentations[job[w].pid].is_converted
      /\ SlidesOf(job[w].pid) # {}

\* The attempt of w ends in this step by raising its error to the caller.
EndsFailed(w) ==
    /\ pc[w] # "done"
    /\ pc'[w] = "done"
    /\ job'[w].result = "PDFConversionError"

\* C11 (as claimed): an attempt on an existing presentation that fails before
\* its final update completes ends with processing_status = failed and with
\* the error raised to the caller, and no step of it changes is_converted or
\* total_slides.
C11_FailureMarksFailed ==
    [][\A w \in Workers :
         LET p == job'[w].pid IN
         /\ (EndsFailed(w) /\ presentations[p].exists)
            => presentations'[p].processing_status = "failed"
         /\ (Step(w) /\ job'[w].result # "ok" /\ presentations[p].exists)
            => /\ presentations'[p].is_converted = presentations[p].is_converted
               /\ presentations'[p].total_slides = presentations[p].total_slides]_vars

\* The moves of processing_status inside one attempt.
StatusMoves ==
    {<<"pending", "in_progress">>, <<"in_progress", "completed">>,
     <<"in_progress", "failed">>}

\* C12 (as claimed): an invocation of the conversion starts its attempt with
\* processing_status = pending, whatever the previous attempt left, and every
\* later change of the status by the attempt is pending -> in_progress,
\* in_progress -> completed or in_progress -> failed.
C12_StatusStateMachine ==
    [][\A w \in Workers :
         LET p == job'[w].pid IN
         /\ (StartsOn(w, p) /\ presentations[p].exists)
            => presentations'[p].processing_status = "pending"
         /\ (/\ Step(w) /\ ~StartsOn(w, p)
             /\ presentations'[p].processing_status # presentations[p].processing_status)
            => <<presentations[p].processing_status,
                 presentations'[p].processing_status>> \in StatusMoves]_vars

Answers == response = NoResponse /\ response' # NoResponse

C15_InRangeSucceeds ==
    [][Answers =>
         LET pk == response'.pk
             n == response'.n
             T == Cardinality(SlidesOf(pk))
         IN (presentations[pk].exists /\ T >= 1 /\ n \in 1..T)
            => /\ response'.body.status = 200
               /\ response'.body.slide_number = n
               /\ response'.body.total_slides = T
               /\ response'.body.has_previous = (n > 1)
               /\ response'.body.has_next = (n < T)]_vars

\* The last slide of a presentation with several slides was requested.
C15_Witness ==
    /\ response # NoResponse
    /\ presentations[response.pk].exists
    /\ Cardinality(SlidesOf(response.pk)) >= 2
    /\ response.n = Cardinality(SlidesOf(response.pk))
    /\ response.body.status = 200
    /\ response.body.has_previous
    /\ ~response.body.has_next

\* C16 (as claimed): when the stored total_slides of a presentation says that
\* slide n exists (1 <= n <= total_slides) and no slide record has the number
\* n, the request for n is answered with status 404.
C16_MissingSlideIs404 ==
    [][Answers =>
         LET pk == response'.pk
             n == response'.n
         IN (/\ presentations[pk].exists
             /\ n \in 1..presentations[pk].total_slides
             /\ n \notin SlideNumbersOf(pk))
            => response'.body.status = 404]_vars

\* The presentation p is deleted in this step.
Deletes(p) == presentations[p].exists /\ ~presentations'[p].exists

\* C17: a delete of a presentation removes its row and every slide it owns,
\* and leaves the row (with total_slides and is_converted) and the slides of
\* every other presentation as they were.
C17_DeleteCascadesOnlyOwn ==
    [][\A p \in PresIds :
         Deletes(p) =>
           /\ {s \in slides' : s.presentation = p} = {}
           /\ \A q \in PresIds \ {p} :
                /\ presentations'[q] = presentations[q]
                /\ {s \in slides' : s.presentation = q} = SlidesOf(q)]_vars

\* A converted presentation with slides was deleted while another converted
\* presentation keeps its slides.
C17_Witness ==
    \E w \in Workers, v \in Workers :
      /\ Completed(w) /\ Completed(v)
      /\ job[w].pid # job[v].pid
      /\ job[w].slides_created # {}
      /\ ~presentations[job[w].pid].exists
      /\ SlidesOf(job[w].pid) = {}
      /\ presentations[job[v].pid].is_converted
      /\ SlidesOf(job[v].pid) # {}

Uploads ==
    /\ response = NoResponse
    /\ response' # NoResponse
    /\ response'.body.view = "upload"

\* The defects of an upload the claim C19 lists: no file, a name that does not
\* end in .pdf (in any case), a declared type other than application/pdf, more
\* than 50 MB, a title of fewer than 3 or more than 200 characters once
\* trimmed.
ClaimedInvalid(form) ==
    \/ form.pdf_file = NoFile
    \/ ~EndsWith(Lower(form.pdf_file.name), DotPdf)
    \/ form.pdf_file.content_type # "application/pdf"
    \/ form.pdf_file.size > MaxUploadBytes
    \/ form.title.core < MinTitleLength
    \/ form.title.core > MaxTitleLength

\* C19: an upload with one of these defects creates no presentation row,
\* stores nothing and starts no conversion.
C19_InvalidUploadNoEffect ==
    [][(Uploads /\ ClaimedInvalid(response'.body.form))
         => /\ response'.body.status = 200
            /\ UNCHANGED <<presentations, pdfStored, pdfPages, slides, blobs,
                           attempts, pc, job>>]_vars

\* An upload whose only defect is the declared content type was answered
\* while a presentation uploaded before is there.
C19_Witness ==
    /\ response # NoResponse
    /\ response.body.status = 200
    /\ response.body.form.pdf_file = File(NamePdf, "text/plain", 1)
    /\ response.body.form.title = Title(0, MinTitleLength, 0)
    /\ \E p \in PresIds : presentations[p].exists
    /\ attempts < MaxAttempts

\* The inline conversion of an upload ends in this step with an error.
UploadConversionFails(w) ==
    /\ job'[w] # job[w]
    /\ pc'[w] = "done"
    /\ job'[w].result = "PDFConversionError"

\* C20 (as claimed): when the conversion of a valid upload fails, the new
\* presentation row is there with processing_status = failed, is_converted
\* false and total_slides 0, and it has no slides.
C20_FailedUploadPersists ==
    [][\A w \in Workers :
         UploadConversionFails(w) =>
           LET p == job'[w].pid IN
           /\ presentations'[p].exists
           /\ presentations'[p].processing_status = "failed"
           /\ ~presentations'[p].is_converted
           /\ presentations'[p].total_slides = 0
           /\ {s \in slides' : s.presentation = p} = {}]_vars

\* The optimizer has returned.
Optimized == image # NoImage /\ image.returned # "none"

\* C21: for an image of width <= 1920 and height <= 1080, also one exactly at
\* these sizes, the optimizer returns the image it was given and does not
\* call resize.
C21_WithinBoundsUnchanged ==
    (Optimized /\ image.size[1] <= MAX_WIDTH /\ image.size[2] <= MAX_HEIGHT)
      => (image.returned = "input" /\ ~image.resized)

\* An image of exactly the maximum size went through the optimizer.
C21_Witness ==
    /\ Optimized
    /\ image.size = <<MAX_WIDTH, MAX_HEIGHT>>
    /\ image.returned = "input"

\* There is a scale t with both resize dimensions less than one pixel away
\* from t * width and t * height.
AspectWithinRounding(size, new) ==
    /\ (new[1] - 1) * size[2] < (new[2] + 1) * size[1]
    /\ (new[2] - 1) * size[1] < (new[1] + 1) * size[2]

\* C22: an image wider than 1920 or higher than 1080 is resized, to at most
\* 1920 by 1080, by the smaller of the two ratios (the dimension that ratio
\* belongs to comes out at its maximum, give or take the truncation), with
\* the aspect ratio kept up to the truncation of each dimension.
C22_ResizeWithinBounds ==
    (Optimized /\ (image.size[1] > MAX_WIDTH \/ image.size[2] > MAX_HEIGHT))
      => /\ image.resized /\ image.returned = "resized"
         /\ image.resize[1] <= MAX_WIDTH
         /\ image.resize[2] <= MAX_HEIGHT
         /\ (image.resize[1] >= MAX_WIDTH - 1 \/ image.resize[2] >= MAX_HEIGHT - 1)
         /\ AspectWithinRounding(image.size, image.resize)

\* A portrait page larger than the maxima in both dimensions was resized.
C22_Witness ==
    /\ Optimized
    /\ image.size = <<2400, 1800>>
    /\ image.resize = <<1440, MAX_HEIGHT>>

\* C30 (as claimed): for an image of at least one pixel each way that exceeds
\* a maximum, both dimensions passed to resize are at least 1.
C30_ResizeDimensionsPositive ==
    (Optimized /\ (image.size[1] > MAX_WIDTH \/ image.size[2] > MAX_HEIGHT))
      => (image.resize[1] >= 1 /\ image.resize[2] >= 1)

\* The attempt of w is over and raised its error to the caller.
Failed(w) == pc[w] = "done" /\ job[w].result = "PDFConversionError"

\* C23 (as claimed): an attempt that ends in failure leaves the slide set of
\* its presentation as it was before the attempt: none of the slides it
\* created is kept, and the slides of the completed attempt directly before
\* it on the same presentation are all still there.
C23_FailureLeavesSlideSet ==
    \A w \in Workers :
      (Failed(w) /\ LastFinished(w))
      => /\ \A s \in slides : s.id.run # job[w].run
         /\ \A v \in Workers :
              (/\ Completed(v)
               /\ job[v].pid = job[w].pid
               /\ job[v].run + 1 = job[w].run)
              => \A n \in job[v].slides_created :
                   [id |-> SlideId(job[v].run, n), presentation |-> job[v].pid,
                    slide_number |-> n] \in slides

\* The slide records the attempt of w created.
CreatedBy(w) ==
    {[id |-> SlideId(job[w].run, n), presentation |-> job[w].pid, slide_number |-> n] :
       n \in job[w].slides_created}

\* C24 (as claimed): when two attempts on the same presentation have both
\* finished normally, however their steps interleaved (the presentation not
\* being deleted meanwhile), total_slides is the number of slides the
\* presentation owns and its slide set is the set one of the two created.
C24_ConcurrentLastWriterWins ==
    \A w \in Workers, v \in Workers :
      LET p == job[w].pid IN
      (/\ w # v
       /\ Completed(w) /\ Completed(v)
       /\ job[v].pid = p
       /\ presentations[p].exists /\ pdfStored[p])
      => /\ presentations[p].total_slides = Cardinality(SlidesOf(p))
         /\ \E u \in {w, v} : SlidesOf(p) = CreatedBy(u)

\* C25 (as claimed): whenever a status query reads a presentation that is
\* already converted while an attempt on it is in flight, the total_slides
\* it reports is the number of slides the presentation owns (slides_count).
C25_QuerySeesConsistentTotal ==
    \A w \in Workers :
      LET p == job[w].pid IN
      (/\ w \in Running
       /\ presentations[p].exists
       /\ GetConversionStatus(p).is_converted)
      => GetConversionStatus(p).total_slides = GetConversionStatus(p).slides_count

\* The attempt of w ends in this step, normally or by raising.
Ends(w) == pc[w] \notin {"idle", "done"} /\ pc'[w] = "done"

\* C26 (as claimed): when the presentation of an attempt in flight has been
\* deleted, the step that ends the attempt leaves the presentation record
\* absent, and no slide refers to the deleted presentation.
C26_DeletedStaysDeleted ==
    [][\A w \in Workers :
         LET p == job[w].pid IN
         (Ends(w) /\ ~presentations[p].exists)
         => /\ ~presentations'[p].exists
            /\ \A s \in slides' : s.presentation # p]_vars

\* C27 (as claimed): a navigation request for slide number n that is answered
\* with success, no conversion being in flight, returns the slide whose
\* stored slide_number is n.
C27_ReturnsRequestedNumber ==
    (/\ Running = {}
     /\ response # NoResponse
     /\ response.body.status = 200)
    => response.body.slide.slide_number = response.n

\* The attempt of w is in flight and its rasterization yielded no page.
ZeroPages(w) ==
    \/ pc[w] \in {"s_delete", "s_create", "s_save"} /\ job[w].images = 0
    \/ pc[w] = "t_handler" /\ job[w].cause = "no_pages"

\* C28 (as claimed): on either path, no step of an attempt whose
\* rasterization yielded zero pages changes is_converted or total_slides, and
\* the attempt ends by raising its error.
C28_ZeroPagesFails ==
    [][\A w \in Workers :
         LET p == job[w].pid IN
         (Step(w) /\ ZeroPages(w))
         => /\ presentations'[p].is_converted = presentations[p].is_converted
            /\ presentations'[p].total_slides = presentations[p].total_slides
            /\ Ends(w) => job'[w].result = "PDFConversionError"]_vars

\* C29: is_converted is monotone: no step, of any attempt on either path and
\* under any interleaving, takes a presentation that exists before and after
\* the step from converted to not converted.
C29_ConvertedIsMonotone ==
    [][\A p \in PresIds :
         (/\ presentations[p].exists
          /\ presentations[p].is_converted
          /\ presentations'[p].exists)
         => presentations'[p].is_converted]_vars

\* A converted presentation on which a later attempt has failed, and which is
\* still converted.
C29_Witness ==
    \E w \in Workers, v \in Workers :
      /\ Completed(v) /\ Failed(w)
      /\ job[v].pid = job[w].pid
      /\ job[v].run < job[w].run
      /\ job[w].cause \in {"ValueError", "raster"}
      /\ presentations[job[w].pid].exists
      /\ presentations[job[w].pid].is_converted

====
